---- MODULE Spec2Model ----
(***************************************************************************)
(* State-machine model of src/src/ezdxf/addons/drawing/pyqt.py: the        *)
(* PyQtBackend (colour, pen, dash-pattern and font resolution with their   *)
(* caches, the per-primitive draw calls, finalize) and its TextRenderer.   *)
(*                                                                         *)
(* Conventions                                                             *)
(*  - a Python str is a sequence of one-character strings;                 *)
(*  - a Python float taking part in dash arithmetic is a record [m, k]     *)
(*    denoting m * 2^(61*k), m a natural number below 2^61-1.  CPython     *)
(*    hashes a number by its value modulo 2^61-1, and 2^61 = 1 modulo      *)
(*    2^61-1, so the hash of m * 2^(61*k) is m: two numbers that differ    *)
(*    only in k are different numbers with equal hashes;                   *)
(*  - a method is an operator from a context record st (the backend's      *)
(*    fields, the pending exception st.err, the value returned st.ret and  *)
(*    the log st.calls of internal calls) to the context after the call.   *)
(*    A raised exception skips every later step and keeps what was stored  *)
(*    before it was raised.                                                *)
(***************************************************************************)
EXTENDS Integers, Sequences, FiniteSets, TLC

VARIABLES
    params,                   \* Backend params: point_size, lineweight_scaling, ...
    _debug_draw_rect,         \* PyQtBackend._debug_draw_rect
    _use_cache,               \* TextRenderer._use_cache
    _scene,                   \* the QGraphicsScene: items and background brush
    _color_cache,             \* PyQtBackend._color_cache
    _dash_pattern_cache,      \* PyQtBackend._dash_pattern_cache
    qfont_cache,              \* the lru_cache of PyQtBackend.get_qfont
    _font_measurement_cache,  \* TextRenderer._font_measurement_cache
    _text_path_cache,         \* TextRenderer._text_path_cache
    entity_stack,             \* Backend.entity_stack
    outcome,                  \* the last call: operation, arguments, exception, result
    calls                     \* the internal calls the last call made, in order

vars == << params, _debug_draw_rect, _use_cache, _scene, _color_cache,
           _dash_pattern_cache, qfont_cache, _font_measurement_cache,
           _text_path_cache, entity_stack, outcome, calls >>

----------------------------------------------------------------------------
(* Generic helpers *)

None == "None"
NoError == "NoError"

EmptyMap == << >>

Put(f, key, value) ==
    [x \in (DOMAIN f) \cup {key} |-> IF x = key THEN value ELSE f[x]]

SeqSum(s) ==
    LET RECURSIVE sum(_)
        sum(n) == IF n = 0 THEN 0 ELSE s[n] + sum(n - 1)
    IN sum(Len(s))

\* seq[:end] of Python: a negative end counts from the back.
PySliceTo(s, end) ==
    LET stop == IF end < 0
                THEN (IF Len(s) + end < 0 THEN 0 ELSE Len(s) + end)
                ELSE (IF end > Len(s) THEN Len(s) ELSE end)
    IN SubSeq(s, 1, stop)

\* seq[first:stop] of Python for 0 <= first <= stop (0-based, stop excluded).
PySlice(s, first, stop) ==
    SubSeq(s, first + 1, IF stop > Len(s) THEN Len(s) ELSE stop)

----------------------------------------------------------------------------
(* Floats of the dash arithmetic: [m, k] is m * 2^(61*k) *)

Num(m, k) == [m |-> m, k |-> IF m = 0 THEN 0 ELSE k]

NumMul(a, b) == Num(a.m * b.m, a.k + b.k)

NumLess(a, b) ==
    IF b.m = 0 THEN FALSE
    ELSE IF a.m = 0 THEN TRUE
    ELSE a.k < b.k \/ (a.k = b.k /\ a.m < b.m)

\* max(a, b) of Python: b only when it is greater than a.
PyMax(a, b) == IF NumLess(a, b) THEN b ELSE a

\* x or 1.0
OrOne(x) == IF x.m = 0 THEN Num(1, 0) ELSE x

\* hash(x) of a float: the value modulo 2^61-1.
hash_float(x) == x.m

\* hash(t) of a tuple depends on the hashes of its elements (and their number)
\* only: it is modelled by the sequence of these hashes.
hash_tuple(hashes) == hashes

----------------------------------------------------------------------------
(* The context a method runs in *)

Context ==
    [ _scene |-> _scene,
      _color_cache |-> _color_cache,
      _dash_pattern_cache |-> _dash_pattern_cache,
      qfont_cache |-> qfont_cache,
      _font_measurement_cache |-> _font_measurement_cache,
      _text_path_cache |-> _text_path_cache,
      err |-> NoError,
      ret |-> None,
      calls |-> << >> ]

Return(st, value) == [st EXCEPT !.ret = value]

Raise(st, exception) == [st EXCEPT !.err = exception, !.ret = None]

Log(st, event) == [st EXCEPT !.calls = Append(@, event)]

\* Sequencing: the context x a call ended in is handed to what follows it.
Bind(x, F(_)) == F(x)

\* The state after a call of operation op with arguments args that ended in st.
Commit(op, args, st) ==
    /\ _scene' = st._scene
    /\ _color_cache' = st._color_cache
    /\ _dash_pattern_cache' = st._dash_pattern_cache
    /\ qfont_cache' = st.qfont_cache
    /\ _font_measurement_cache' = st._font_measurement_cache
    /\ _text_path_cache' = st._text_path_cache
    /\ outcome' = [op |-> op, args |-> args, err |-> st.err, ret |-> st.ret]
    /\ calls' = st.calls
    /\ UNCHANGED << params, _debug_draw_rect, _use_cache >>

----------------------------------------------------------------------------
(* Colours *)

\* QColor(name): '#RRGGBB' is opaque, '#AARRGGBB' carries its alpha first.
QColor(name) ==
    IF Len(name) = 7
    THEN [alpha |-> << "f", "f" >>, rgb |-> PySlice(name, 1, 7)]
    ELSE [alpha |-> PySlice(name, 1, 3), rgb |-> PySlice(name, 3, 9)]

\* A _get_color that takes every string that is not '#RRGGBB' for '#RRGGBBAA'.
_get_color_lenient(st, color) ==
    IF st.err # NoError THEN st
    ELSE
    Bind(Log(st, [fn |-> "_get_color", color |-> color]), LAMBDA s1 :
        IF color \in DOMAIN s1._color_cache
        THEN Return(s1, s1._color_cache[color])
        ELSE Bind(QColor(IF Len(color) = 7 THEN color
                         ELSE << "#" >> \o PySlice(color, 7, 9)
                                     \o PySlice(color, 1, 7)),
                  LAMBDA qt_color :
                Return([s1 EXCEPT !._color_cache = Put(@, color, qt_color)],
                       qt_color)))

_get_color(st, color) ==
    IF st.err # NoError THEN st
    ELSE
    Bind(Log(st, [fn |-> "_get_color", color |-> color]), LAMBDA s1 :
        IF color \in DOMAIN s1._color_cache
        THEN Return(s1, s1._color_cache[color])
        ELSE IF Len(color) = 7
        THEN Bind(QColor(color), LAMBDA qt_color :
                Return([s1 EXCEPT !._color_cache = Put(@, color, qt_color)],
                       qt_color))
        ELSE IF Len(color) = 9
        THEN Bind(QColor(<< "#" >> \o PySlice(color, 7, 9) \o PySlice(color, 1, 7)),
                  LAMBDA qt_color :
                Return([s1 EXCEPT !._color_cache = Put(@, color, qt_color)],
                       qt_color))
        ELSE Raise(s1, "TypeError"))

----------------------------------------------------------------------------
(* Dash patterns and pens *)

\* ezdxf.units.IMPERIAL_UNITS: inch, foot, mile, microinch, mil, yard.
IMPERIAL_UNITS == {1, 2, 3, 8, 9, 10}

\* A _get_line_pattern_factor that leaves the linetype_scaling parameter out.
_get_line_pattern_factor_unscaled(units) ==
    IF units \in IMPERIAL_UNITS THEN Num(750, 0) ELSE Num(30, 0)

_get_line_pattern_factor(units) ==
    LET scale == OrOne(params.linetype_scaling)
    IN  NumMul(IF units \in IMPERIAL_UNITS THEN Num(750, 0) ELSE Num(30, 0),
               scale)

\* hash((pattern, scale))
dash_hash_key(pattern, scale) ==
    hash_tuple(<< hash_tuple([i \in DOMAIN pattern |-> hash_float(pattern[i])]),
                  hash_float(scale) >>)

\* The except branch of _get_dash_pattern: the dashes of an uncached pattern.
compute_dashes(pattern, scale) ==
    LET len == Len(pattern)
        end == IF len % 2 = 1 THEN -1 ELSE len
        min_length == params.min_dash_length
        cut == PySliceTo(pattern, end)
    IN  [i \in DOMAIN cut |-> PyMax(NumMul(cut[i], scale), min_length)]

_get_dash_pattern(st, pattern, scale) ==
    IF st.err # NoError THEN st
    ELSE
    Bind(Log(st, [fn |-> "_get_dash_pattern", pattern |-> pattern,
                  scale |-> scale]), LAMBDA s1 :
    Bind(dash_hash_key(pattern, scale), LAMBDA hash_key :
        IF hash_key \in DOMAIN s1._dash_pattern_cache
        THEN Return(s1, s1._dash_pattern_cache[hash_key])
        ELSE Bind(compute_dashes(pattern, scale), LAMBDA dashes :
                Return([s1 EXCEPT !._dash_pattern_cache =
                                      Put(@, hash_key, dashes)],
                       dashes))))

\* properties.lineweight is in 1/100 mm; the width in pixels is the fraction
\* lineweight / 0.3527 * lineweight_scaling.
_get_pen(st, properties) ==
    IF st.err # NoError THEN st
    ELSE
    Bind([num |-> properties.lineweight * 100 * params.lineweight_scaling,
          den |-> 3527], LAMBDA px :
    Bind(_get_color(st, properties.color), LAMBDA s1 :
    Bind([color |-> s1.ret, width |-> px, cosmetic |-> TRUE,
          join |-> "RoundJoin", dashes |-> << >>], LAMBDA pen :
        IF s1.err # NoError THEN s1
        ELSE IF Len(properties.linetype_pattern) > 1
                /\ params.linetype_scaling.m # 0
        THEN Bind(_get_line_pattern_factor(properties.units),
                  LAMBDA pattern_factor :
             Bind(_get_dash_pattern(
                      s1, properties.linetype_pattern,
                      NumMul(properties.linetype_scale, pattern_factor)),
                  LAMBDA s2 :
                Return(s2, [pen EXCEPT !.dashes = s2.ret])))
        ELSE Return(s1, pen))))

_no_line == [style |-> "NoPen"]
_no_fill == [style |-> "NoBrush"]

_get_brush(st, properties) ==
    IF st.err # NoError THEN st
    ELSE IF properties.filling
    THEN Bind(_get_color(st, properties.color), LAMBDA s1 :
            IF s1.err # NoError THEN s1
            ELSE Return(s1, [style |-> "SolidPattern", color |-> s1.ret]))
    ELSE Return(st, _no_fill)

----------------------------------------------------------------------------
(* Fonts *)

UpperCase == << "A", "B", "C", "D", "E", "F", "G", "H", "I", "J", "K", "L", "M",
                "N", "O", "P", "Q", "R", "S", "T", "U", "V", "W", "X", "Y", "Z" >>
LowerCase == << "a", "b", "c", "d", "e", "f", "g", "h", "i", "j", "k", "l", "m",
                "n", "o", "p", "q", "r", "s", "t", "u", "v", "w", "x", "y", "z" >>

\* str.lower()
PyLower(s) ==
    [i \in DOMAIN s |->
        IF \E j \in DOMAIN UpperCase : UpperCase[j] = s[i]
        THEN LowerCase[CHOOSE j \in DOMAIN UpperCase : UpperCase[j] = s[i]]
        ELSE s[i]]

\* needle in haystack, for two str
PyContains(needle, haystack) ==
    \E first \in 0..(Len(haystack) - Len(needle)) :
        PySlice(haystack, first, first + Len(needle)) = needle

\* int(x) for the float x = tenths / 10: truncation towards zero.
PyIntOfTenths(tenths) ==
    IF tenths >= 0 THEN tenths \div 10 ELSE -((-tenths) \div 10)

\* fonts.weight_name_to_value
weight_name_to_value(name) ==
    CASE name = "thin" -> 100
      [] name = "light" -> 300
      [] name = "normal" -> 400
      [] name = "bold" -> 700
      [] name = "black" -> 900
      [] OTHER -> 400

\* round(x) of Python for the float x = tenths / 10: to the nearest integer, a
\* half to the even one.
PyRoundOfTenths(tenths) ==
    LET floor == tenths \div 10
        rest == tenths % 10
    IN  IF rest < 5 THEN floor
        ELSE IF rest > 5 THEN floor + 1
        ELSE IF floor % 2 = 0 THEN floor ELSE floor + 1

\* A _map_weight that rounds weight / 10 before it adds 10.
_map_weight_rounded(weight) ==
    LET w == IF "name" \in DOMAIN weight
             THEN weight_name_to_value(weight.name)
             ELSE weight.int
        value == PyRoundOfTenths(w) + 10
        lower == IF 0 > value THEN 0 ELSE value
    IN  IF lower < 99 THEN lower ELSE 99

\* A weight is [int |-> w] or [name |-> n] (the str of Union[str, int]).
_map_weight(weight) ==
    LET w == IF "name" \in DOMAIN weight
             THEN weight_name_to_value(weight.name)
             ELSE weight.int
        value == PyIntOfTenths(w + 100)
        lower == IF 0 > value THEN 0 ELSE value
    IN  IF lower < 99 THEN lower ELSE 99

\* The font argument None.
NoFont == << >>

\* QFont(): the default font of the TextRenderer.
default_font == [family |-> "", weight |-> 50, italic |-> FALSE]

lru_maxsize == 256

\* The position of key in the lru cache, 0 when it holds none.
LruIndex(cache, key) ==
    IF \E i \in DOMAIN cache : cache[i].key = key
    THEN CHOOSE i \in DOMAIN cache : cache[i].key = key
    ELSE 0

Remove(s, i) == SubSeq(s, 1, i - 1) \o SubSeq(s, i + 1, Len(s))

\* A hit that leaves the order of the entries as it is (first in, first out).
LruHit_unordered(cache, i) == cache

\* functools.lru_cache: a hit makes the entry the most recently used one (the
\* last); a miss stores the result last and, with the cache full, drops the
\* least recently used entry (the first).
LruHit(cache, i) == Append(Remove(cache, i), cache[i])

LruStore(cache, key, value) ==
    LET entry == [key |-> key, value |-> value]
    IN  IF Len(cache) >= lru_maxsize
        THEN Append(Tail(cache), entry)
        ELSE Append(cache, entry)

\* The body of get_qfont, run on a miss of its lru cache.
make_qfont(font) ==
    IF font # NoFont
    THEN LET family == font.family
             italic == PyContains(<< "i", "t", "a", "l", "i", "c" >>,
                                  PyLower(font.style))
             weight == _map_weight(font.weight)
         IN  [family |-> family, weight |-> weight, italic |-> italic]
    ELSE default_font

get_qfont(st, font) ==
    IF st.err # NoError THEN st
    ELSE
    Bind(Log(st, [fn |-> "get_qfont", font |-> font]), LAMBDA s1 :
    Bind(LruIndex(s1.qfont_cache, font), LAMBDA i :
        IF i # 0
        THEN Return([s1 EXCEPT !.qfont_cache = LruHit(@, i)],
                    s1.qfont_cache[i].value)
        ELSE Bind(make_qfont(font), LAMBDA qfont :
                Return([s1 EXCEPT !.qfont_cache = LruStore(@, font, qfont)],
                       qfont))))

----------------------------------------------------------------------------
(* TextRenderer *)

\* hash(font) of a QFont: qHash over its attributes.
hash_qfont(font) == << font.family, font.weight, font.italic >>

\* The box of one glyph in font units (y grows downwards, the baseline is 0):
\* what QPainterPath.addText and boundingRect make of a character.
GlyphBox(ch) ==
    CASE ch = "X" -> [top |-> -7, bottom |-> 0, advance |-> 7]
      [] ch = "x" -> [top |-> -5, bottom |-> 0, advance |-> 5]
      [] ch = "p" -> [top |-> -5, bottom |-> 2, advance |-> 5]
      [] ch \in {" ", "\t"} -> [top |-> 0, bottom |-> 0, advance |-> 3]
      [] OTHER -> [top |-> -5, bottom |-> 0, advance |-> 5]

\* QPainterPath.addText(0, 0, font, text): the outline of the shaped text.
addText(font, text) == [font |-> font, text |-> text]

Min(S) == CHOOSE x \in S : \A y \in S : x <= y
Max(S) == CHOOSE x \in S : \A y \in S : x >= y

\* QPainterPath.boundingRect()
boundingRect(path) ==
    IF path.text = << >>
    THEN [top |-> 0, bottom |-> 0, right |-> 0]
    ELSE [top |-> Min({GlyphBox(path.text[i]).top : i \in DOMAIN path.text}),
          bottom |-> Max({GlyphBox(path.text[i]).bottom : i \in DOMAIN path.text}),
          right |-> SeqSum([i \in DOMAIN path.text |->
                               GlyphBox(path.text[i]).advance])]

clear_cache(st) == [st EXCEPT !._text_path_cache = EmptyMap]

\* cache = self._text_path_cache[hash(font)]: the lookup of a missing key in a
\* defaultdict(dict) stores an empty dict under it.
text_path_cache_of(st, key) ==
    IF key \in DOMAIN st._text_path_cache
    THEN st
    ELSE [st EXCEPT !._text_path_cache = Put(@, key, EmptyMap)]

\* A get_text_path that stores the outline whether or not the cache is in use.
get_text_path_always_stored(st, text, font) ==
    IF st.err # NoError THEN st
    ELSE
    Bind(hash_qfont(font), LAMBDA key :
    Bind(text_path_cache_of(
             Log(st, [fn |-> "get_text_path", text |-> text, font |-> font]),
             key), LAMBDA s2 :
        IF text \in DOMAIN s2._text_path_cache[key]
        THEN Return(s2, s2._text_path_cache[key][text])
        ELSE Bind(addText(font, text), LAMBDA path :
             Bind(Log(s2, [fn |-> "addText", text |-> text, font |-> font]),
                  LAMBDA s3 :
                Return([s3 EXCEPT !._text_path_cache[key] = Put(@, text, path)],
                       path)))))

get_text_path(st, text, font) ==
    IF st.err # NoError THEN st
    ELSE
    Bind(hash_qfont(font), LAMBDA key :
    Bind(text_path_cache_of(
             Log(st, [fn |-> "get_text_path", text |-> text, font |-> font]),
             key), LAMBDA s2 :
        IF text \in DOMAIN s2._text_path_cache[key]
        THEN Return(s2, s2._text_path_cache[key][text])
        ELSE Bind(addText(font, text), LAMBDA path :
             Bind(Log(s2, [fn |-> "addText", text |-> text, font |-> font]),
                  LAMBDA s3 :
                IF _use_cache
                THEN Return([s3 EXCEPT !._text_path_cache[key] =
                                           Put(@, text, path)],
                            path)
                ELSE Return(s3, path)))))

get_text_rect(st, text, font) ==
    Bind(get_text_path(st, text, font), LAMBDA s1 :
        IF s1.err # NoError THEN s1 ELSE Return(s1, boundingRect(s1.ret)))

FontMeasurements(upper_x, lower_x, lower_p) ==
    LET baseline == lower_x.bottom
    IN  [baseline |-> baseline,
         cap_height |-> baseline - upper_x.top,
         x_height |-> baseline - lower_x.top,
         descender_height |-> lower_p.bottom - baseline]

TextRenderer_get_font_measurements(st, font) ==
    IF st.err # NoError THEN st
    ELSE
    Bind(hash_qfont(font), LAMBDA key :
    Bind(Log(st, [fn |-> "TextRenderer.get_font_measurements", font |-> font]),
         LAMBDA s0 :
        IF key \in DOMAIN s0._font_measurement_cache
        THEN Return(s0, s0._font_measurement_cache[key])
        ELSE Bind(get_text_rect(s0, << "X" >>, font), LAMBDA s1 :
             Bind(get_text_rect(s1, << "x" >>, font), LAMBDA s2 :
             Bind(get_text_rect(s2, << "p" >>, font), LAMBDA s3 :
             Bind(FontMeasurements(s1.ret, s2.ret, s3.ret),
                  LAMBDA measurements :
                Return([s3 EXCEPT !._font_measurement_cache =
                                      Put(@, key, measurements)],
                       measurements)))))))

\* desired_cap_height / measurements.cap_height, as a fraction.
get_scale(st, desired_cap_height, font) ==
    Bind(TextRenderer_get_font_measurements(st, font), LAMBDA s1 :
        IF s1.err # NoError THEN s1
        ELSE IF s1.ret.cap_height = 0 THEN Raise(s1, "ZeroDivisionError")
        ELSE Return(s1, [num |-> desired_cap_height,
                         den |-> s1.ret.cap_height]))

----------------------------------------------------------------------------
(* Entities and the entity stack (ezdxf.addons.drawing.backend.Backend) *)

\* An entity is its handle; entity.dxftype() is read from the handle.
dxftype(entity) ==
    CASE entity = "INSERT_1" -> "INSERT"
      [] entity = "TEXT_2" -> "TEXT"
      [] entity = "MTEXT_3" -> "MTEXT"
      [] OTHER -> "LINE"

\* Backend.current_entity: the entity of the last frame, None without a frame.
current_entity ==
    IF entity_stack = << >> THEN None ELSE entity_stack[Len(entity_stack)][1]

WhiteSpace == {" ", "\t"}

\* str.strip()
PyStrip(s) ==
    LET solid == {i \in DOMAIN s : s[i] \notin WhiteSpace}
    IN  IF solid = {} THEN << >> ELSE SubSeq(s, Min(solid), Max(solid))

\* backend.prepare_string_for_rendering: the tabs of a single line of text are
\* replaced, by a "?" in a TEXT, ATTRIB or ATTDEF and by a space elsewhere.
prepare_string_for_rendering(text, type) ==
    [i \in DOMAIN text |->
        IF text[i] = "\t"
        THEN (IF type \in {"TEXT", "ATTRIB", "ATTDEF"} THEN "?" ELSE " ")
        ELSE text[i]]

----------------------------------------------------------------------------
(* The scene and its items *)

CorrespondingDXFEntity == 0
CorrespondingDXFParentStack == 1

\* A new QGraphicsItem.  emitted_under is not a field of the item: it records
\* the entity stack at the time the item was made, for the properties below.
NewItem(kind, shape, pen, brush) ==
    [kind |-> kind, shape |-> shape, pen |-> pen, brush |-> brush,
     data |-> EmptyMap, emitted_under |-> entity_stack]

\* QGraphicsItem.setData(key, value)
setData(item, key, value) == [item EXCEPT !.data = Put(@, key, value)]

\* A _set_item_data that takes the whole entity stack for the parent stack.
_set_item_data_whole_stack(item) ==
    setData(setData(item, CorrespondingDXFEntity, current_entity),
            CorrespondingDXFParentStack,
            [i \in DOMAIN entity_stack |-> entity_stack[i][1]])

_set_item_data(item) ==
    LET front == PySliceTo(entity_stack, -1)
        parent_stack == [i \in DOMAIN front |-> front[i][1]]
    IN  setData(setData(item, CorrespondingDXFEntity, current_entity),
                CorrespondingDXFParentStack, parent_stack)

\* QGraphicsScene.addItem / addLine / addPath / addPolygon / addRect
addItem(st, item) == [st EXCEPT !._scene.items = Append(@, item)]

\* _set_item_data on the item the scene has just returned from an add call.
TagLastItem(st) ==
    [st EXCEPT !._scene.items[Len(st._scene.items)] = _set_item_data(@)]

_extend_qt_path(st, qt_path, path) ==
    LET RECURSIVE extend(_, _)
        extend(acc, n) ==
            IF n > Len(path.cmds) THEN Return(st, acc)
            ELSE IF path.cmds[n].type = "LINE_TO"
            THEN extend(Append(acc, [op |-> "lineTo", end |-> path.cmds[n].end]),
                        n + 1)
            ELSE IF path.cmds[n].type = "CURVE_TO"
            THEN extend(Append(acc, [op |-> "cubicTo", end |-> path.cmds[n].end]),
                        n + 1)
            ELSE Raise(st, "ValueError")
    IN  IF st.err # NoError THEN st
        ELSE extend(Append(qt_path, [op |-> "moveTo", end |-> path.start]), 1)

\* Path.counter_clockwise() and Path.clockwise(): the path with its winding forced.
counter_clockwise(path) == [path EXCEPT !.winding = "ccw"]
clockwise(path) == [path EXCEPT !.winding = "cw"]

\* The two loops of draw_filled_paths over the oriented paths.
extend_all(st, qt_path, paths) ==
    LET RECURSIVE go(_, _)
        go(s, n) ==
            IF n > Len(paths) \/ s.err # NoError THEN s
            ELSE go(_extend_qt_path(s, s.ret, paths[n]), n + 1)
    IN  go(Return(st, qt_path), 1)

set_background(st, color) ==
    Bind(_get_color(st, color), LAMBDA s1 :
        IF s1.err # NoError THEN s1
        ELSE Return([s1 EXCEPT !._scene.background =
                                   [style |-> "SolidPattern", color |-> s1.ret]],
                    None))

draw_point(st, pos, properties) ==
    Bind(_get_color(st, properties.color), LAMBDA s1 :
        IF s1.err # NoError THEN s1
        ELSE Bind(NewItem("point",
                          [pos |-> pos,
                           radius |-> [num |-> params.point_size, den |-> 2]],
                          _no_line,
                          [style |-> "SolidPattern", color |-> s1.ret]),
                  LAMBDA item :
                Return(addItem(s1, _set_item_data(item)), None)))

\* A draw_line that adds the line first and sets its pen afterwards.
draw_line_add_first(st, start, end, properties) ==
    Bind(addItem(st, NewItem("line", [start |-> start, end |-> end], _no_line,
                             _no_fill)), LAMBDA s0 :
    Bind(_get_pen(s0, properties), LAMBDA s1 :
        IF s1.err # NoError THEN s1
        ELSE Return(TagLastItem([s1 EXCEPT
                        !._scene.items[Len(s1._scene.items)].pen = s1.ret]),
                    None)))

draw_line(st, start, end, properties) ==
    Bind(_get_pen(st, properties), LAMBDA s1 :
        IF s1.err # NoError THEN s1
        ELSE Bind(NewItem("line", [start |-> start, end |-> end], s1.ret,
                          _no_fill), LAMBDA item :
                Return(TagLastItem(addItem(s1, item)), None)))

draw_path(st, path, properties) ==
    Bind(_extend_qt_path(st, << >>, path), LAMBDA s1 :
    Bind(_get_pen(s1, properties), LAMBDA s2 :
        IF s2.err # NoError THEN s2
        ELSE Bind(NewItem("path", s1.ret, s2.ret, _no_fill), LAMBDA item :
                Return(TagLastItem(addItem(s2, item)), None))))

draw_filled_paths(st, paths, holes, properties) ==
    IF params.show_hatch = 0 THEN Return(st, None)
    ELSE
    Bind(extend_all(st, << >>,
                    [i \in DOMAIN paths |-> counter_clockwise(paths[i])]),
         LAMBDA s1 :
    Bind(extend_all(s1, s1.ret, [i \in DOMAIN holes |-> clockwise(holes[i])]),
         LAMBDA s2 :
    Bind(_get_pen(s2, properties), LAMBDA s3 :
    Bind(_get_brush(s3, properties), LAMBDA s4 :
        IF s4.err # NoError THEN s4
        ELSE Bind(NewItem("path", s2.ret, s3.ret, s4.ret), LAMBDA item :
                Return(TagLastItem(addItem(s4, item)), None))))))

draw_filled_polygon(st, points, properties) ==
    Bind(_get_brush(st, properties), LAMBDA s1 :
        IF s1.err # NoError THEN s1
        ELSE Bind(NewItem("polygon", points, _no_line, s1.ret), LAMBDA item :
                Return(TagLastItem(addItem(s1, item)), None)))

draw_text(st, text, transform, properties, cap_height) ==
    IF PyStrip(text) = << >> THEN Return(st, None)
    ELSE IF current_entity = None THEN Raise(st, "AttributeError")
    ELSE
    Bind(prepare_string_for_rendering(text, dxftype(current_entity)),
         LAMBDA prepared :
    Bind(get_qfont(st, properties.font), LAMBDA s1 :
    Bind(get_scale(s1, cap_height, s1.ret), LAMBDA s2 :
    Bind(get_text_path(s2, prepared, s1.ret), LAMBDA s3 :
    \* _matrix_to_qtransform(Matrix44.scale(scale, -scale, 0) @ transform).map(path)
    Bind([outline |-> s3.ret, scale |-> s2.ret, transform |-> transform],
         LAMBDA path :
    Bind(_get_color(s3, properties.color), LAMBDA s4 :
        IF s4.err # NoError THEN s4
        ELSE Bind(NewItem("path", path, _no_line, s4.ret), LAMBDA item :
                Return(TagLastItem(addItem(s4, item)), None))))))))

get_font_measurements(st, cap_height, font) ==
    Bind(get_qfont(st, font), LAMBDA s1 :
    Bind(TextRenderer_get_font_measurements(s1, s1.ret), LAMBDA s2 :
        IF s2.err # NoError THEN s2
        \* FontMeasurements.scale_from_baseline(desired_cap_height)
        ELSE Return(s2, [measurements |-> s2.ret,
                         desired_cap_height |-> cap_height])))

\* A get_text_line_width that measures blank text like any other.
get_text_line_width_unguarded(st, text, cap_height, font) ==
    Bind(prepare_string_for_rendering(
             text,
             IF current_entity # None THEN dxftype(current_entity) ELSE "TEXT"),
         LAMBDA prepared :
    Bind(get_qfont(st, font), LAMBDA s1 :
    Bind(get_scale(s1, cap_height, s1.ret), LAMBDA s2 :
    Bind(get_text_rect(s2, prepared, s1.ret), LAMBDA s3 :
        IF s3.err # NoError THEN s3
        ELSE Return(s3, [num |-> s3.ret.right * s2.ret.num,
                         den |-> s2.ret.den])))))

get_text_line_width(st, text, cap_height, font) ==
    IF PyStrip(text) = << >> THEN Return(st, 0)
    ELSE
    Bind(prepare_string_for_rendering(
             text,
             IF current_entity # None THEN dxftype(current_entity) ELSE "TEXT"),
         LAMBDA prepared :
    Bind(get_qfont(st, font), LAMBDA s1 :
    Bind(get_scale(s1, cap_height, s1.ret), LAMBDA s2 :
    Bind(get_text_rect(s2, prepared, s1.ret), LAMBDA s3 :
        IF s3.err # NoError THEN s3
        ELSE Return(s3, [num |-> s3.ret.right * s2.ret.num,
                         den |-> s2.ret.den])))))

clear_text_cache(st) == Return(clear_cache(st), None)

clear(st) == Return([st EXCEPT !._scene.items = << >>], None)

\* Properties(): the defaults of a new property set.
DefaultProperties ==
    [color |-> << "#", "f", "f", "f", "f", "f", "f" >>, lineweight |-> 25,
     linetype_pattern |-> << >>, linetype_scale |-> Num(1, 0),
     filling |-> FALSE, units |-> 0, font |-> NoFont]

\* itemsBoundingRect() is stood for by the number of items it bounds.
finalize(st) ==
    Bind([st EXCEPT !._scene.sceneRect = Len(st._scene.items)], LAMBDA s1 :
        IF _debug_draw_rect
        THEN Bind(_get_pen(s1, [DefaultProperties EXCEPT
                      !.color = << "#", "0", "0", "0", "0", "0", "0" >>]),
                  LAMBDA s2 :
                IF s2.err # NoError THEN s2
                ELSE Return(addItem(s2, NewItem("rect", s1._scene.sceneRect,
                                                s2.ret, _no_fill)),
                            None))
        ELSE Return(s1, None))

----------------------------------------------------------------------------
(* Bounds and inputs *)

MaxScene == 2          \* draw calls stop at this many items in the scene
MaxDepth == 2          \* frames on the entity stack
ColorSpread == 1       \* colour strings have 7-ColorSpread .. 9+ColorSpread characters

Entities == {"INSERT_1", "TEXT_2"}

ColorChars == << "#", "1", "2", "3", "4", "5", "6", "7", "8", "9", "a", "b" >>

\* The colour string of n characters: '#123456' for 7, '#12345678' for 9.
ColorOfLength(n) == [i \in 1..n |-> ColorChars[((i - 1) % Len(ColorChars)) + 1]]

RGB == ColorOfLength(7)
RGBA == ColorOfLength(9)

Colors == {ColorOfLength(n) : n \in (7 - ColorSpread)..(9 + ColorSpread)}

WithColor(color, filling) ==
    [DefaultProperties EXCEPT !.color = color, !.filling = filling]

Origin == << 0, 0 >>

GoodPath ==
    [start |-> Origin, winding |-> "any",
     cmds |-> << [type |-> "LINE_TO", end |-> << 1, 0 >>],
                 [type |-> "CURVE_TO", end |-> << 1, 1 >>] >>]

BadPath ==
    [start |-> Origin, winding |-> "any",
     cmds |-> << [type |-> "LINE_TO", end |-> << 1, 0 >>],
                 [type |-> "ARC_TO", end |-> << 1, 1 >>] >>]

Triangle == << Origin, << 1, 0 >>, << 1, 1 >> >>

----------------------------------------------------------------------------
(* Operations *)

Room == Len(_scene.items) < MaxScene

SetBackground(color) ==
    /\ Commit("set_background", << >>, set_background(Context, color))
    /\ UNCHANGED entity_stack

DrawPoint(pos, properties) ==
    /\ Room
    /\ Commit("draw_point", << >>,
              draw_point(Context, pos, properties))
    /\ UNCHANGED entity_stack

DrawLine(start, end, properties) ==
    /\ Room
    /\ Commit("draw_line", << >>,
              draw_line(Context, start, end, properties))
    /\ UNCHANGED entity_stack

DrawPath(path, properties) ==
    /\ Room
    /\ Commit("draw_path", << >>,
              draw_path(Context, path, properties))
    /\ UNCHANGED entity_stack

DrawFilledPaths(paths, holes, properties) ==
    /\ Room
    /\ Commit("draw_filled_paths", << >>,
              draw_filled_paths(Context, paths, holes, properties))
    /\ UNCHANGED entity_stack

DrawFilledPolygon(points, properties) ==
    /\ Room
    /\ Commit("draw_filled_polygon", << >>,
              draw_filled_polygon(Context, points, properties))
    /\ UNCHANGED entity_stack

DrawText(text, transform, properties, cap_height) ==
    /\ Room
    /\ Commit("draw_text", [text |-> text],
              draw_text(Context, text, transform, properties, cap_height))
    /\ UNCHANGED entity_stack

GetFontMeasurements(cap_height, font) ==
    /\ Commit("get_font_measurements", [font |-> font],
              get_font_measurements(Context, cap_height, font))
    /\ UNCHANGED entity_stack

GetTextLineWidth(text, cap_height, font) ==
    /\ Commit("get_text_line_width", [font |-> font, text |-> text],
              get_text_line_width(Context, text, cap_height, font))
    /\ UNCHANGED entity_stack

GetQFont(font) ==
    /\ Commit("get_qfont", [font |-> font], get_qfont(Context, font))
    /\ UNCHANGED entity_stack

ClearTextCache ==
    /\ Commit("clear_text_cache", << >>, clear_text_cache(Context))
    /\ UNCHANGED entity_stack

Clear ==
    /\ Commit("clear", << >>, clear(Context))
    /\ UNCHANGED entity_stack

Finalize ==
    /\ Room
    /\ Commit("finalize", << >>, finalize(Context))
    /\ UNCHANGED entity_stack

\* Backend.enter_entity: the frontend pushes a frame (entity, properties).
EnterEntity(entity, properties) ==
    /\ Len(entity_stack) < MaxDepth
    /\ \A i \in DOMAIN entity_stack : entity_stack[i][1] # entity
    /\ entity_stack' = Append(entity_stack, << entity, properties >>)
    /\ outcome' = [op |-> "enter_entity", args |-> << >>,
                   err |-> NoError, ret |-> None]
    /\ calls' = << >>
    /\ UNCHANGED << params, _debug_draw_rect, _use_cache, _scene, _color_cache,
                    _dash_pattern_cache, qfont_cache, _font_measurement_cache,
                    _text_path_cache >>

\* Backend.exit_entity: the frontend pops the last frame.
ExitEntity ==
    /\ entity_stack # << >>
    /\ entity_stack' = PySliceTo(entity_stack, -1)
    /\ outcome' = [op |-> "exit_entity", args |-> << >>,
                   err |-> NoError, ret |-> None]
    /\ calls' = << >>
    /\ UNCHANGED << params, _debug_draw_rect, _use_cache, _scene, _color_cache,
                    _dash_pattern_cache, qfont_cache, _font_measurement_cache,
                    _text_path_cache >>

\* PyQtBackend.__init__ with a scene, and TextRenderer.__init__
Constructed(show_hatch, linetype_scaling, min_dash_length, use_text_cache, debug_draw_rect) ==
    /\ params = [point_size |-> 1, lineweight_scaling |-> 2,
                 show_hatch |-> show_hatch,
                 linetype_scaling |-> linetype_scaling,
                 min_dash_length |-> min_dash_length]
    /\ _debug_draw_rect = debug_draw_rect
    /\ _use_cache = use_text_cache
    /\ _scene = [items |-> << >>, background |-> _no_fill, sceneRect |-> 0]
    /\ _color_cache = EmptyMap
    /\ _dash_pattern_cache = EmptyMap
    /\ qfont_cache = << >>
    /\ _font_measurement_cache = EmptyMap
    /\ _text_path_cache = EmptyMap
    /\ entity_stack = << >>
    /\ outcome = [op |-> "__init__", args |-> << >>, err |-> NoError, ret |-> None]
    /\ calls = << >>

----------------------------------------------------------------------------
(* Spec: the six draw calls with inputs that skip and fail, and clear *)

Init ==
    \E show_hatch \in {0, 1} :
        Constructed(show_hatch, Num(1, 0), Num(1, 0), TRUE, FALSE)

SceneColors == {RGB, ColorOfLength(8)}
SceneProperties == {WithColor(c, f) : c \in SceneColors, f \in BOOLEAN}
SceneTexts == {<< "a" >>, << " " >>, << >>}

Next ==
    \/ EnterEntity("TEXT_2", DefaultProperties)
    \/ ExitEntity
    \/ \E p \in SceneProperties : DrawPoint(Origin, p)
    \/ \E p \in SceneProperties : DrawLine(Origin, << 1, 0 >>, p)
    \/ \E p \in SceneProperties, path \in {GoodPath, BadPath} : DrawPath(path, p)
    \/ \E p \in SceneProperties, holes \in {<< >>, << BadPath >>} :
           DrawFilledPaths(<< GoodPath >>, holes, p)
    \/ \E p \in SceneProperties : DrawFilledPolygon(Triangle, p)
    \/ \E p \in SceneProperties, t \in SceneTexts : DrawText(t, "T", p, 10)
    \/ Clear

Spec == Init /\ [][Next]_vars

----------------------------------------------------------------------------
(* SpecTags: a drawing pass over nested entities, ended by finalize *)

InitTags ==
    \E debug_draw_rect \in BOOLEAN :
        Constructed(1, Num(1, 0), Num(1, 0), TRUE, debug_draw_rect)

Plain == WithColor(RGB, TRUE)

NextTags ==
    \/ \E e \in Entities : EnterEntity(e, DefaultProperties)
    \/ ExitEntity
    \/ DrawPoint(Origin, Plain)
    \/ DrawLine(Origin, << 1, 0 >>, Plain)
    \/ DrawPath(GoodPath, Plain)
    \/ DrawFilledPaths(<< GoodPath >>, << >>, Plain)
    \/ DrawFilledPolygon(Triangle, Plain)
    \/ DrawText(<< "a" >>, "T", Plain, 10)
    \/ Finalize
    \/ Clear

SpecTags == InitTags /\ [][NextTags]_vars

----------------------------------------------------------------------------
(* SpecColor: every call that resolves a colour.  set_background takes every
   colour string, the draw calls '#RRGGBB' and every ill-formed one. *)

InitColor == Constructed(1, Num(1, 0), Num(1, 0), TRUE, FALSE)

DrawColors == Colors \ {RGBA}

NextColor ==
    \/ EnterEntity("TEXT_2", DefaultProperties)
    \/ ExitEntity
    \/ \E c \in Colors : SetBackground(c)
    \/ \E c \in DrawColors : DrawPoint(Origin, WithColor(c, TRUE))
    \/ \E c \in DrawColors : DrawLine(Origin, << 1, 0 >>, WithColor(c, TRUE))
    \/ \E c \in DrawColors : DrawPath(GoodPath, WithColor(c, TRUE))
    \/ \E c \in DrawColors :
           DrawFilledPaths(<< GoodPath >>, << >>, WithColor(c, TRUE))
    \/ \E c \in DrawColors, f \in BOOLEAN :
           DrawFilledPolygon(Triangle, WithColor(c, f))
    \/ \E c \in DrawColors : DrawText(<< "a" >>, "T", WithColor(c, TRUE), 10)
    \/ Clear

SpecColor == InitColor /\ [][NextColor]_vars

----------------------------------------------------------------------------
(* SpecDash: pens and dash patterns, over patterns of every parity, hash keys
   that two patterns share, both unit systems and the linetype_scaling and
   min_dash_length parameters *)

GetPen(properties) ==
    /\ Commit("_get_pen", [properties |-> properties],
              _get_pen(Context, properties))
    /\ UNCHANGED entity_stack

GetDashPattern(pattern, scale) ==
    /\ Commit("_get_dash_pattern", [pattern |-> pattern, scale |-> scale],
              _get_dash_pattern(Context, pattern, scale))
    /\ UNCHANGED entity_stack

\* (), (1.0,), (1.0, 1.0), (2.0**61, 2.0**61) and (2.0, 1.0, 3.0)
DashPatterns ==
    { << >>,
      << Num(1, 0) >>,
      << Num(1, 0), Num(1, 0) >>,
      << Num(1, 1), Num(1, 1) >>,
      << Num(2, 0), Num(1, 0), Num(3, 0) >> }

\* 0 is unitless, 1 is inches
DashProperties ==
    {[DefaultProperties EXCEPT !.linetype_pattern = pattern, !.units = units] :
        pattern \in DashPatterns, units \in {0, 1}}

InitDash ==
    \E linetype_scaling \in {Num(0, 0), Num(1, 0), Num(2, 0)},
       min_dash_length \in {Num(1, 0), Num(40, 0)} :
        Constructed(1, linetype_scaling, min_dash_length, TRUE, FALSE)

NextDash ==
    \/ \E properties \in DashProperties : GetPen(properties)
    \/ \E pattern \in DashPatterns : GetDashPattern(pattern, Num(2, 0))

SpecDash == InitDash /\ [][NextDash]_vars

----------------------------------------------------------------------------
(* SpecWeight: _map_weight over the font weights *)

MaxWeight == 1000      \* the integer font weights are 0 .. MaxWeight

WeightNames == {"thin", "light", "normal", "bold", "black"}

MapWeight(weight) ==
    /\ outcome' = [op |-> "_map_weight", args |-> weight, err |-> NoError,
                   ret |-> _map_weight(weight)]
    /\ calls' = << >>
    /\ UNCHANGED << params, _debug_draw_rect, _use_cache, _scene, _color_cache,
                    _dash_pattern_cache, qfont_cache, _font_measurement_cache,
                    _text_path_cache, entity_stack >>

InitWeight == Constructed(1, Num(1, 0), Num(1, 0), TRUE, FALSE)

NextWeight ==
    \/ \E w \in 0..MaxWeight : MapWeight([int |-> w])
    \/ \E name \in WeightNames : MapWeight([name |-> name])

SpecWeight == InitWeight /\ [][NextWeight]_vars

----------------------------------------------------------------------------
(* SpecText: text drawing and measuring over blank and solid texts and two
   fonts, with the text cache in use and not in use *)

MaxBlank == 2          \* blank texts have up to this many characters

\* The texts made of whitespace only, the empty text among them.
BlankTexts ==
    UNION {[1..n -> WhiteSpace] : n \in 0..MaxBlank}

Texts == BlankTexts \cup {<< "a", "\t" >>}

BoldItalic ==
    [family |-> "Arial", style |-> << "I", "t", "a", "l", "i", "c" >>,
     weight |-> [name |-> "bold"]]

TextFonts == {NoFont, BoldItalic}

WithFont(font) == [DefaultProperties EXCEPT !.font = font]

InitText ==
    \E use_text_cache \in BOOLEAN :
        Constructed(1, Num(1, 0), Num(1, 0), use_text_cache, FALSE)

NextText ==
    \/ EnterEntity("TEXT_2", DefaultProperties)
    \/ ExitEntity
    \/ \E t \in Texts, f \in TextFonts : DrawText(t, "T", WithFont(f), 10)
    \/ \E t \in Texts, f \in TextFonts : GetTextLineWidth(t, 10, f)
    \/ \E f \in TextFonts : GetFontMeasurements(10, f)
    \/ ClearTextCache
    \/ Clear

SpecText == InitText /\ [][NextText]_vars

----------------------------------------------------------------------------
(* SpecCache: the five caches over a document with more fonts than the lru
   cache of get_qfont holds.  The fonts are resolved in the order of their
   weights; the first font is resolved again when it is the least recently
   used one of a full cache. *)

MaxFonts == 257        \* the fonts of the document

CacheFont(w) == [family |-> "Arial", style |-> << >>, weight |-> [int |-> w]]

LruKeys(cache) == {cache[i].key : i \in DOMAIN cache}

\* The weights of the fonts the document resolves next: the font after the
\* heaviest one resolved so far and, with the cache full and the first font
\* the least recently used one, the first font again.
NextWeights ==
    IF qfont_cache = << >> THEN {1}
    ELSE ({Max({key.weight.int : key \in LruKeys(qfont_cache)}) + 1}
          \cap 1..MaxFonts)
         \cup (IF Len(qfont_cache) = lru_maxsize
                  /\ qfont_cache[1].key = CacheFont(1)
               THEN {1} ELSE {})

InitCache == Constructed(1, Num(1, 0), Num(1, 0), TRUE, FALSE)

NextCache ==
    \/ \E w \in NextWeights : GetQFont(CacheFont(w))
    \/ \E w \in NextWeights \cap {1} : GetFontMeasurements(10, CacheFont(w))
    \/ SetBackground(RGB)
    \/ GetDashPattern(<< Num(1, 0), Num(1, 0) >>, Num(2, 0))
    \/ ClearTextCache

SpecCache == InitCache /\ [][NextCache]_vars

----------------------------------------------------------------------------
(* Properties *)

DrawCalls == {"draw_point", "draw_line", "draw_path", "draw_filled_paths",
              "draw_filled_polygon", "draw_text"}

Blank(text) == \A i \in DOMAIN text : text[i] \in WhiteSpace

\* C1: a draw call adds exactly one primitive to the scene or none, leaves the
\* primitives already there as they are, and adds none exactly when it is an
\* expected skip (blank text, or draw_filled_paths with show_hatch = 0) or
\* when it raises.
C1_DrawCallAtomic ==
    [][outcome'.op \in DrawCalls =>
        LET added == Len(_scene'.items) - Len(_scene.items)
            skip == \/ outcome'.op = "draw_text" /\ Blank(outcome'.args.text)
                    \/ outcome'.op = "draw_filled_paths" /\ params.show_hatch = 0
        IN  /\ added \in {0, 1}
            /\ SubSeq(_scene'.items, 1, Len(_scene.items)) = _scene.items
            /\ added = 0 <=> (skip \/ outcome'.err # NoError)]_vars

\* C1 witness: a draw_path that raised on an unknown segment while the scene
\* held a primitive, which is still the only one.
C1_Witness ==
    /\ outcome.op = "draw_path"
    /\ outcome.err = "ValueError"
    /\ Len(_scene.items) = 1

\* The tag _set_item_data gives an item made under the entity stack stack.
TagOf(stack) ==
    [key \in {CorrespondingDXFEntity, CorrespondingDXFParentStack} |->
        IF key = CorrespondingDXFEntity
        THEN (IF stack = << >> THEN None ELSE stack[Len(stack)][1])
        ELSE [i \in 1..(Len(stack) - 1) |-> stack[i][1]]]

Tagged(item) ==
    /\ DOMAIN item.data = {CorrespondingDXFEntity, CorrespondingDXFParentStack}
    /\ item.data[CorrespondingDXFEntity] =
           TagOf(item.emitted_under)[CorrespondingDXFEntity]
    /\ item.data[CorrespondingDXFParentStack] =
           TagOf(item.emitted_under)[CorrespondingDXFParentStack]

\* C2 as claimed: after finalize every primitive of the scene carries the tag
\* of the entity stack it was emitted under.
C2_AllTaggedAfterFinalize ==
    outcome.op = "finalize" =>
        \A i \in DOMAIN _scene.items : Tagged(_scene.items[i])

\* C2 amended: after finalize every primitive a draw call emitted carries the
\* tag of the entity stack it was emitted under (the current entity and the
\* stack without its last frame); the rectangle finalize adds when
\* debug_draw_rect is on carries no tag.
C2_DrawnTaggedAfterFinalize ==
    outcome.op = "finalize" =>
        \A i \in DOMAIN _scene.items :
            IF _scene.items[i].kind = "rect"
            THEN _scene.items[i].data = EmptyMap
            ELSE Tagged(_scene.items[i])

\* C2 witness: finalize with debug_draw_rect on has added its rectangle to a
\* scene that holds a primitive drawn under a nested entity.
C2_Witness ==
    /\ outcome.op = "finalize"
    /\ _debug_draw_rect
    /\ \E i, j \in DOMAIN _scene.items :
          /\ Len(_scene.items[i].emitted_under) = 2
          /\ _scene.items[i].kind # "rect"
          /\ _scene.items[j].kind = "rect"

\* C4: a call that resolves a colour string whose length is neither 7 nor 9
\* raises (the TypeError of _get_color), stores nothing in the colour cache
\* and adds nothing to the scene.
C4_MalformedColorFails ==
    [][\A i \in DOMAIN calls' :
          (calls'[i].fn = "_get_color" /\ Len(calls'[i].color) \notin {7, 9})
          => /\ outcome'.err = "TypeError"
             /\ _color_cache' = _color_cache
             /\ _scene' = _scene]_vars

\* C4 witness: a draw_text with a malformed colour has raised while the colour
\* cache held both well-formed colours and the scene a primitive.
C4_Witness ==
    /\ outcome.op = "draw_text"
    /\ outcome.err = "TypeError"
    /\ DOMAIN _color_cache = {RGB, RGBA}
    /\ Len(_scene.items) = 1


\* The unit-system constant of the pattern factor.
UnitConstant(units) == IF units \in {1, 2, 3, 8, 9, 10} THEN 750 ELSE 30

\* The positions of the dash-pattern resolutions among the internal calls.
DashResolutions(log) == {i \in DOMAIN log : log[i].fn = "_get_dash_pattern"}

\* The pen builder applies a dash pattern for these properties.
AppliesDashes(properties) ==
    Len(properties.linetype_pattern) > 1 /\ params.linetype_scaling.m # 0

\* C6 as claimed: whenever _get_pen applies a dash pattern, the scale it hands
\* to _get_dash_pattern is linetype_scale * constant / linetype_scaling, that
\* is, scale * linetype_scaling = linetype_scale * constant.
C6_ScaleDividedByKnob ==
    [][(outcome'.op = "_get_pen" /\ AppliesDashes(outcome'.args.properties)) =>
        /\ DashResolutions(calls') # {}
        /\ \A i \in DashResolutions(calls') :
              NumMul(calls'[i].scale, OrOne(params.linetype_scaling)) =
              NumMul(outcome'.args.properties.linetype_scale,
                     Num(UnitConstant(outcome'.args.properties.units), 0))]_vars

\* C6 amended: whenever _get_pen applies a dash pattern (pattern longer than 1
\* and linetype_scaling not 0), the scale it hands to _get_dash_pattern is
\* linetype_scale * constant * linetype_scaling, the constant being 750 for
\* imperial units and 30 otherwise.
C6_ScaleTimesKnob ==
    [][(outcome'.op = "_get_pen" /\ AppliesDashes(outcome'.args.properties)) =>
        /\ DashResolutions(calls') # {}
        /\ \A i \in DashResolutions(calls') :
              calls'[i].scale =
              NumMul(NumMul(outcome'.args.properties.linetype_scale,
                            Num(UnitConstant(outcome'.args.properties.units), 0)),
                     params.linetype_scaling)]_vars

\* C6 witness: with linetype_scaling = 2 a pen was built with dashes for a
\* pattern in imperial units.
C6_Witness ==
    /\ outcome.op = "_get_pen"
    /\ params.linetype_scaling = Num(2, 0)
    /\ outcome.args.properties.units = 1
    /\ Len(outcome.args.properties.linetype_pattern) = 3
    /\ Len(outcome.ret.dashes) = 2

\* clamp(value, 0, 99)
Clamp99(value) == IF value < 0 THEN 0 ELSE IF value > 99 THEN 99 ELSE value

\* C7 as claimed: for an integer weight w the mapping returns
\* clamp(round(w / 10) + 10, 0, 99).
C7_WeightRounded ==
    (outcome.op = "_map_weight" /\ "int" \in DOMAIN outcome.args) =>
        outcome.ret = Clamp99(PyRoundOfTenths(outcome.args.int) + 10)

\* C7 amended: for an integer weight w in 0 .. 1000 the mapping returns
\* clamp(floor(w / 10) + 10, 0, 99); the result lies in 0 .. 99, 1000 maps to
\* 99, 0 maps to at most 10 and 400 maps to 50.
C7_WeightTruncated ==
    (outcome.op = "_map_weight" /\ "int" \in DOMAIN outcome.args) =>
        /\ outcome.ret = Clamp99((outcome.args.int \div 10) + 10)
        /\ outcome.ret \in 0..99
        /\ outcome.args.int = 1000 => outcome.ret = 99
        /\ outcome.args.int = 0 => outcome.ret <= 10
        /\ outcome.args.int = 400 => outcome.ret = 50

\* C7 witness: a weight whose tenth is not whole, 406, was mapped (to 50).
C7_Witness ==
    /\ outcome.op = "_map_weight"
    /\ outcome.args = [int |-> 406]
    /\ outcome.ret = 50


\* C5: draw_text and get_text_line_width of a text that is empty or made of
\* whitespace only make no internal call (no font resolution, no font
\* measurement, no shaping), raise nothing, leave the scene and the
\* font-resolution, font-measurement and glyph-outline caches as they were,
\* and get_text_line_width returns 0.
C5_BlankTextSkipped ==
    [][(/\ outcome'.op \in {"draw_text", "get_text_line_width"}
        /\ Blank(outcome'.args.text)) =>
        /\ calls' = << >>
        /\ outcome'.err = NoError
        /\ _scene' = _scene
        /\ qfont_cache' = qfont_cache
        /\ _font_measurement_cache' = _font_measurement_cache
        /\ _text_path_cache' = _text_path_cache
        /\ outcome'.op = "get_text_line_width" => outcome'.ret = 0]_vars

\* C5 witness: the width of a text of two whitespace characters was asked for
\* while the three caches held entries, and 0 was returned.
C5_Witness ==
    /\ outcome.op = "get_text_line_width"
    /\ Len(outcome.args.text) = MaxBlank
    /\ Blank(outcome.args.text)
    /\ outcome.ret = 0
    /\ qfont_cache # << >>
    /\ _font_measurement_cache # EmptyMap
    /\ \E key \in DOMAIN _text_path_cache : _text_path_cache[key] # EmptyMap

\* C9: with the text cache not in use, the glyph-outline cache holds no outline
\* (the per-font dicts stay empty) and every get_text_path of the last call,
\* the probes "X", "x" and "p" included, was followed by the shaping of its
\* text in its font.
C9_DisabledCacheShapesAnew ==
    ~_use_cache =>
        /\ \A key \in DOMAIN _text_path_cache : _text_path_cache[key] = EmptyMap
        /\ \A i \in DOMAIN calls :
              calls[i].fn = "get_text_path" =>
                  /\ i < Len(calls)
                  /\ calls[i + 1] = [calls[i] EXCEPT !.fn = "addText"]

\* C9 witness: with the text cache not in use, a text was drawn a second time
\* in the same font, and shaped for it.
C9_Witness ==
    /\ ~_use_cache
    /\ outcome.op = "draw_text"
    /\ Len(_scene.items) = 2
    /\ _scene.items[1].shape.outline = _scene.items[2].shape.outline
    /\ \E i \in DOMAIN calls :
          /\ calls[i].fn = "addText"
          /\ calls[i].text = _scene.items[2].shape.outline.text

\* What _get_dash_pattern computes without its cache: the last length dropped
\* from a pattern of odd length, every length times scale, min_dash_length
\* where that is greater.
Uncached(pattern, scale) ==
    LET kept == SubSeq(pattern, 1, Len(pattern) - (Len(pattern) % 2))
    IN  [i \in DOMAIN kept |->
            IF NumLess(NumMul(kept[i], scale), params.min_dash_length)
            THEN params.min_dash_length
            ELSE NumMul(kept[i], scale)]

\* C3 as claimed: the dashes resolved for a pattern and a scale are even in
\* number, as many as the pattern has without the last of an odd number, none
\* is below min_dash_length, and each is max(length * scale, min_dash_length)
\* of the length at its place in the pattern.
C3_DashesNormalised ==
    outcome.op = "_get_dash_pattern" =>
        LET pattern == outcome.args.pattern
            dashes == outcome.ret
        IN  /\ Len(dashes) % 2 = 0
            /\ Len(dashes) = Len(pattern) - (Len(pattern) % 2)
            /\ \A i \in DOMAIN dashes :
                  /\ ~NumLess(dashes[i], params.min_dash_length)
                  /\ dashes[i] = Uncached(pattern, outcome.args.scale)[i]

\* C3 failing input: (1.0, 1.0) with scale 2.0 was resolved to dashes that
\* are 2**61 times too long.
C3_Witness ==
    /\ outcome.op = "_get_dash_pattern"
    /\ outcome.args.pattern = << Num(1, 0), Num(1, 0) >>
    /\ outcome.ret = << Num(2, 1), Num(2, 1) >>

\* C10 as claimed: whatever was resolved before, _get_dash_pattern returns
\* what the computation without the cache gives for its pattern and scale.
C10_DashCacheTransparent ==
    [][outcome'.op = "_get_dash_pattern" =>
        outcome'.ret = Uncached(outcome'.args.pattern, outcome'.args.scale)]_vars

\* C10 failing input: (2.0**61, 2.0**61) with scale 2.0 was resolved to the
\* dashes stored for (1.0, 1.0), whose hash key is the same.
C10_Witness ==
    /\ outcome.op = "_get_dash_pattern"
    /\ outcome.args.pattern = << Num(1, 1), Num(1, 1) >>
    /\ outcome.ret # Uncached(outcome.args.pattern, outcome.args.scale)
    /\ outcome.ret = Uncached(<< Num(1, 0), Num(1, 0) >>, outcome.args.scale)


\* Every entry of the dict old is an entry of the dict new.
Kept(old, new) ==
    \A key \in DOMAIN old : key \in DOMAIN new /\ new[key] = old[key]

\* Every outline of the glyph-outline cache old is an outline of new.
OutlinesKept(old, new) ==
    \A key \in DOMAIN old :
        old[key] # EmptyMap => (key \in DOMAIN new /\ Kept(old[key], new[key]))

\* The entries of the lru cache old that new holds no more.
Dropped(old, new) ==
    {i \in DOMAIN old : \A j \in DOMAIN new : new[j] # old[i]}

\* clear_text_cache empties the glyph-outline cache and leaves the other four
\* caches as they are; every other call keeps the entries of the colour, dash
\* pattern, font-measurement and glyph-outline caches.
OnlyBulkClear ==
    IF outcome'.op = "clear_text_cache"
    THEN /\ _text_path_cache' = EmptyMap
         /\ UNCHANGED << _color_cache, _dash_pattern_cache, qfont_cache,
                         _font_measurement_cache >>
    ELSE /\ Kept(_color_cache, _color_cache')
         /\ Kept(_dash_pattern_cache, _dash_pattern_cache')
         /\ Kept(_font_measurement_cache, _font_measurement_cache')
         /\ OutlinesKept(_text_path_cache, _text_path_cache')

\* C8 as claimed: no call drops an entry of any of the five caches, but for
\* clear_text_cache, which empties the glyph-outline cache only.
C8_NoEntryEvicted ==
    [][OnlyBulkClear /\ Dropped(qfont_cache, qfont_cache') = {}]_vars

\* C8 amended: no call drops an entry of the colour, dash-pattern,
\* font-measurement or glyph-outline cache, but for clear_text_cache, which
\* empties the glyph-outline cache only; the cache of get_qfont drops an entry
\* only when it holds 256 entries and a font it does not hold is resolved, and
\* the entry dropped is the least recently used one, never that of the font
\* the call before resolved.
C8_OnlyLruEvicts ==
    [][/\ OnlyBulkClear
       /\ \/ Dropped(qfont_cache, qfont_cache') = {}
          \/ /\ Dropped(qfont_cache, qfont_cache') = {1}
             /\ Len(qfont_cache) = 256
             /\ Len(qfont_cache') = 256
             /\ qfont_cache'[256].key \notin LruKeys(qfont_cache)
             /\ outcome'.op \in {"get_qfont", "get_font_measurements"}
             /\ outcome.op \in {"get_qfont", "get_font_measurements"} =>
                    qfont_cache[1].key # outcome.args.font]_vars

\* C8 witness: with 256 fonts resolved and the first of them resolved again,
\* the font resolved next has driven the second font out of the cache, while
\* the colour and the dash-pattern cache hold their entries.
C8_Witness ==
    /\ outcome.op = "get_qfont"
    /\ Len(qfont_cache) = 256
    /\ CacheFont(1) \in LruKeys(qfont_cache)
    /\ CacheFont(2) \notin LruKeys(qfont_cache)
    /\ _color_cache # EmptyMap
    /\ _dash_pattern_cache # EmptyMap

====
